---------------------------- MODULE Spec2Model ----------------------------
(***************************************************************************)
(* Monte Carlo demo of the notebook: OptimizedNormalDistribution (cached   *)
(* sampling), MemoryAwareMonteCarloEngine (batched run) and                *)
(* MemoryEfficientAnalyzer (aggregation).                                  *)
(*                                                                         *)
(* A numpy array of samples is kept as the window of the generator's       *)
(* stream it was drawn from: [seed, first, n, mu, sigma, dtype] is the n   *)
(* draws number first .. first+n-1 of the generator seeded with seed,      *)
(* scaled by (mu, sigma) and cast to dtype.  Slicing an array moves the    *)
(* window, as a numpy view does.                                           *)
(***************************************************************************)
EXTENDS Integers, Sequences, FiniteSets, TLC

VARIABLES
    config,          \* SimulationConfig of the engines
    rng,             \* rng[e]: generator of engine e, [seed, pos]
    distributions,   \* distributions[e]: list of OptimizedNormalDistribution
    pc,              \* pc[e]: position of engine e in run_simulation
    batch_idx,       \* batch_idx[e]: loop variable of run_simulation
    n_batches,       \* n_batches[e]
    col,             \* col[e]: loop variable i of _simulate_batch
    batch_data,      \* batch_data[e]: the batch under construction, or None
    results,         \* results[e]: the local list of run_simulation
    returned,        \* returned[e]: what the last run_simulation call returned
    executor,        \* executor[e]: the ThreadPoolExecutor of the running call
    calls,           \* calls[e]: history of the calls made on engine e
    samples,         \* samples[e]: history of every sample() call of engine e
    built,           \* built[e]: history of the batches _simulate_batch returned
    logger,          \* logger[e]: the lines engine e sent to the logging sink
    an_results,      \* MemoryEfficientAnalyzer.results
    metrics,         \* what compute_aggregate_metrics returned, or None
    figure,          \* what plot_results drew on the plotting surface, or None
    heap,            \* heap[id]: the numpy array object id, or None
    arr,             \* the caller's variable arr: the id of an array
    fr_calls         \* history of the filter_and_replace calls

vars == <<config, rng, distributions, pc, batch_idx, n_batches, col, batch_data,
          results, returned, executor, calls, samples, built, logger, an_results,
          metrics, figure, heap, arr, fr_calls>>

engineVars == <<config, rng, distributions, pc, batch_idx, n_batches, col,
                batch_data, results, returned, executor, calls, samples, built,
                logger>>

analyzerVars == <<an_results, metrics, figure>>

filterVars == <<heap, arr, fr_calls>>

-----------------------------------------------------------------------------
(* Bounds of the model *)

\* direct sample() calls made on an engine
MaxCalls == 3
\* run_simulation calls made on an engine
MaxRuns == 2
\* length of the list handed to the analyzer
MaxK == 6
\* entries of the array handed to filter_and_replace
MaxLen == 3
\* times the caller applies the same filter_and_replace call
MaxApply == 2

(* Program constants *)

\* self._cache_size = 5000
CacheSize == 5000
\* np.random.default_rng(seed=42)
Seed == 42
\* ThreadPoolExecutor(max_workers=4)
MaxWorkers == 4
\* significand bits of np.float32, the dtype of the configuration
F32Bits == 24

\* Python's None
None == [none |-> TRUE]

\* the engine under test and the engine that repeats its calls
Engines == {1, 2}

Min(a, b) == IF a <= b THEN a ELSE b
Max(a, b) == IF a >= b THEN a ELSE b

-----------------------------------------------------------------------------
(* SimulationConfig *)

SimulationConfig(n, b, v) ==
    [n_simulations |-> n, batch_size |-> b, n_variables |-> v,
     confidence_level |-> "0.95", optimization_target |-> "1.0",
     max_memory_usage |-> "14GiB", dtype |-> "float32"]

\* the configurations of the runs: the notebook's own, the scenario of the
\* specification, one whose batches leave a remainder in the cache, one whose
\* batch is as large as the cache, one whose batch exceeds the cache, one
\* without variables whose batch exceeds the cache, one with fewer
\* simulations than a batch, one with an empty batch
Configs ==
    { SimulationConfig(40000, 1000, 4),
      SimulationConfig(4000, 1000, 4),
      SimulationConfig(9500, 3000, 2),
      SimulationConfig(10000, 5000, 1),
      SimulationConfig(12000, 6000, 2),
      SimulationConfig(12000, 6000, 0),
      SimulationConfig(500, 1000, 4),
      SimulationConfig(1000, 0, 1) }

\* the configurations of the engines whose distributions are sampled directly
SampleConfigs == { SimulationConfig(4000, 1000, 2) }

\* the sizes asked of sample() directly
Sizes == {0, 1, 2500, 5000, 6000}

-----------------------------------------------------------------------------
(* The generator: np.random.default_rng *)

default_rng_unseeded(e) == [seed |-> e, pos |-> 0]

\* np.random.default_rng(seed=42), built by engine e
default_rng(e) == [seed |-> Seed, pos |-> 0]

\* one scalar draw: rng.normal(0, 1), rng.uniform(0.5, 2)
Draw(g, law) == [law |-> law, seed |-> g.seed, at |-> g.pos]

Advance(g, n) == [g EXCEPT !.pos = @ + n]

\* rng.normal(mu, sigma, n): the next n draws of the stream (float64)
Normal(g, mu, sigma, n) ==
    [seed |-> g.seed, first |-> g.pos, n |-> n, mu |-> mu, sigma |-> sigma,
     dtype |-> "float64"]

\* ndarray.astype(dtype)
AsType(a, dtype) == [a EXCEPT !.dtype = dtype]

\* a[:size] and a[size:] for size >= 0
Take(a, size) == [a EXCEPT !.n = Min(size, a.n)]
Drop(a, size) == [a EXCEPT !.first = @ + Min(size, a.n), !.n = @ - Min(size, a.n)]

ArrayLen(a) == a.n

-----------------------------------------------------------------------------
(* OptimizedNormalDistribution *)

\* __init__(mu, sigma, rng, dtype): the generator is the engine's, shared
OptimizedNormalDistribution(mu, sigma, dtype) ==
    [mu |-> mu, sigma |-> sigma, dtype |-> dtype, cached_samples |-> None,
     cache_size |-> CacheSize]

NeedsRefill_NoneOnly(d, size) == d.cached_samples = None

NeedsRefill_OrEqual(d, size) ==
    d.cached_samples = None \/ ArrayLen(d.cached_samples) <= size

\* self._cached_samples is None or len(self._cached_samples) < size
NeedsRefill(d, size) ==
    d.cached_samples = None \/ ArrayLen(d.cached_samples) < size

RefillCount_AtLeastSize(d, size) == Max(d.cache_size, size)

\* the number of draws of a refill: self._cache_size, whatever size is
RefillCount(d, size) == d.cache_size

Remainder_Kept(a, size) == a

\* self._cached_samples[size:]
Remainder(a, size) == Drop(a, size)

\* sample(size) of distribution d drawing from generator g: the distribution
\* and the generator after the call, and the array returned
sample(d, g, size) ==
    LET refill == NeedsRefill(d, size)
        count  == RefillCount(d, size)
        cache  == IF refill
                  THEN AsType(Normal(g, d.mu, d.sigma, count), d.dtype)
                  ELSE d.cached_samples
    IN  [dist   |-> [d EXCEPT !.cached_samples = Remainder(cache, size)],
         rng    |-> IF refill THEN Advance(g, count) ELSE g,
         result |-> Take(cache, size)]

-----------------------------------------------------------------------------
(* MemoryAwareMonteCarloEngine: construction *)

\* _initialize_distributions: for each variable mu = rng.normal(0, 1) and
\* sigma = rng.uniform(0.5, 2), drawn in this order from the engine's generator
_initialize_distributions(cfg, g) ==
    [k \in 0 .. cfg.n_variables - 1 |->
        OptimizedNormalDistribution(Draw(Advance(g, 2 * k), "normal"),
                                    Draw(Advance(g, 2 * k + 1), "uniform"),
                                    cfg.dtype)]

\* the generator once _initialize_distributions has drawn from it
RngAfterInit(cfg, g) == Advance(g, 2 * cfg.n_variables)

NoReturn == [status |-> "none"]

NoExecutor == [open |-> FALSE, max_workers |-> 0, submitted |-> 0]

\* the state after MemoryAwareMonteCarloEngine(config) for every engine and
\* MemoryEfficientAnalyzer(an, config)
InitEngines(cfgs, lists) ==
    /\ config \in cfgs
    /\ rng = [e \in Engines |-> RngAfterInit(config, default_rng(e))]
    /\ distributions =
           [e \in Engines |-> _initialize_distributions(config, default_rng(e))]
    /\ pc = [e \in Engines |-> "idle"]
    /\ batch_idx = [e \in Engines |-> 0]
    /\ n_batches = [e \in Engines |-> 0]
    /\ col = [e \in Engines |-> 0]
    /\ batch_data = [e \in Engines |-> None]
    /\ results = [e \in Engines |-> <<>>]
    /\ returned = [e \in Engines |-> NoReturn]
    /\ executor = [e \in Engines |-> NoExecutor]
    /\ calls = [e \in Engines |-> <<>>]
    /\ samples = [e \in Engines |-> <<>>]
    /\ built = [e \in Engines |-> <<>>]
    /\ logger = [e \in Engines |-> <<>>]
    /\ an_results \in lists
    /\ metrics = None
    /\ figure = None

\* the ids of the array objects
ObjectIds == {1, 2}

\* the second notebook: no array of the first notebook exists
InitWith(cfgs, lists) ==
    /\ InitEngines(cfgs, lists)
    /\ heap = [id \in ObjectIds |-> None]
    /\ arr = 0
    /\ fr_calls = <<>>

-----------------------------------------------------------------------------
(* Calls of sample() *)

Dispatch_Submit(ex) == [ex EXCEPT !.submitted = @ + 1]

\* batch_data = self._simulate_batch() inside the with block: the batch is
\* a plain call, the executor is handed nothing
Dispatch(ex) == ex

\* the thread a batch runs on: the caller's, unless the executor was handed
\* the batch
ThreadOf(ex) == IF ex.submitted > 0 THEN "ThreadPoolExecutor-0_0" ELSE "MainThread"

\* dist.sample(size) on distribution i of engine e; run and batch name the
\* run_simulation call and the batch index the call belongs to, run 0 being a
\* call made directly
DoSample(e, i, size, run, batch) ==
    LET r == sample(distributions[e][i], rng[e], size)
    IN  /\ distributions' = [distributions EXCEPT ![e][i] = r.dist]
        /\ rng' = [rng EXCEPT ![e] = r.rng]
        /\ samples' = [samples EXCEPT ![e] = Append(@,
               [dist |-> i, size |-> size, run |-> run, batch |-> batch,
                thread |-> ThreadOf(executor[e]),
                before |-> distributions[e][i].cached_samples,
                rng_before |-> rng[e], rng_after |-> r.rng,
                result |-> r.result, after |-> r.dist.cached_samples])]

\* a call made on an engine and what it returned
SampleCall(i, size, ret) == [op |-> "sample", dist |-> i, size |-> size, ret |-> ret]

RunCall(ret) == [op |-> "run_simulation", dist |-> 0, size |-> 0, ret |-> ret]

NumCalls(e, op) == Cardinality({k \in 1 .. Len(calls[e]) : calls[e][k].op = op})

\* the next call engine 2 has to repeat
Pending == Len(calls[2]) < Len(calls[1])
NextCall == calls[1][Len(calls[2]) + 1]

\* the caller asks distribution i of engine 1 for size samples
DirectSample(i, size) ==
    /\ pc[1] = "idle"
    /\ NumCalls(1, "sample") < MaxCalls
    /\ pc[2] = "idle"
    /\ DoSample(1, i, size, 0, 0)
    /\ calls' = [calls EXCEPT ![1] =
                    Append(@, SampleCall(i, size, samples'[1][Len(samples'[1])].result))]
    /\ UNCHANGED <<config, pc, batch_idx, n_batches, col, batch_data, results,
                   returned, executor, built, logger, analyzerVars, filterVars>>

\* engine 2 is driven by the same call
ReplaySample ==
    /\ pc[1] = "idle" /\ pc[2] = "idle"
    /\ Pending
    /\ NextCall.op = "sample"
    /\ DoSample(2, NextCall.dist, NextCall.size, 0, 0)
    /\ calls' = [calls EXCEPT ![2] =
                    Append(@, SampleCall(NextCall.dist, NextCall.size,
                                         samples'[2][Len(samples'[2])].result))]
    /\ UNCHANGED <<config, pc, batch_idx, n_batches, col, batch_data, results,
                   returned, executor, built, logger, analyzerVars, filterVars>>

InitSample == InitWith(SampleConfigs, {<<>>})

NextSample ==
    \/ \E i \in 0 .. config.n_variables - 1 : \E size \in Sizes :
          DirectSample(i, size)
    \/ ReplaySample

\* arbitrary sequences of sample() calls on the distributions of an engine
SpecSample == InitSample /\ [][NextSample]_vars

-----------------------------------------------------------------------------
(* MemoryAwareMonteCarloEngine: run_simulation *)

\* np.zeros((rows, ncols), dtype): no column holds samples yet
Zeros(rows, ncols, dtype) ==
    [shape |-> <<rows, ncols>>, dtype |-> dtype,
     columns |-> [c \in 0 .. ncols - 1 |-> [zeros |-> TRUE, n |-> rows]]]

Assignable_AnyLength(rows, n) == TRUE

\* whether numpy can assign a one-dimensional value of length n to a column
\* of rows entries: equal lengths, or a single value that is broadcast
Assignable(rows, n) == n = rows \/ n = 1

SetColumn_First(m, i, v) ==
    [m EXCEPT !.columns[0] =
        IF ArrayLen(v) = m.shape[1] THEN AsType(v, m.dtype)
        ELSE [repeat |-> AsType(v, m.dtype), n |-> m.shape[1]]]

\* results[:, i] = v, for an assignable v
SetColumn(m, i, v) ==
    [m EXCEPT !.columns[i] =
        IF ArrayLen(v) = m.shape[1] THEN AsType(v, m.dtype)
        ELSE [repeat |-> AsType(v, m.dtype), n |-> m.shape[1]]]

\* float(np.mean(batch_data)), float(np.std(...)), float(np.var(...)): each
\* reduction is kept as its name applied to the whole batch
Reduction(op, m) == [op |-> op, of |-> m, as |-> "float"]

_process_batch(m) ==
    [mean |-> Reduction("np.mean", m), std |-> Reduction("np.std", m),
     var |-> Reduction("np.var", m)]

NumBatches_Ceil(cfg) == (cfg.n_simulations + cfg.batch_size - 1) \div cfg.batch_size

\* n_batches = self.config.n_simulations // self.config.batch_size
NumBatches(cfg) == cfg.n_simulations \div cfg.batch_size

AppendMetrics_Front(list, m) == <<m>> \o list

\* results.append(metrics)
AppendMetrics(list, m) == Append(list, m)

Returned(list) == [status |-> "returned", value |-> list]
Raised_AsEmptyList(error) == [status |-> "returned", value |-> <<>>]
Raised(error) == [status |-> "raised", error |-> error]

RunNumber(e) == NumCalls(e, "run_simulation")

\* the call returns or raises: the with block is left, the locals are gone and
\* the call's record gets what the caller received
Leave(e, ret) ==
    /\ returned' = [returned EXCEPT ![e] = ret]
    /\ calls' = [calls EXCEPT ![e][Len(calls[e])] = RunCall(ret)]
    /\ executor' = [executor EXCEPT ![e].open = FALSE]
    /\ results' = [results EXCEPT ![e] = <<>>]
    /\ batch_data' = [batch_data EXCEPT ![e] = None]
    /\ pc' = [pc EXCEPT ![e] = "idle"]

\* engine 1 is called by the caller, engine 2 repeats the calls of engine 1
MayRun(e) ==
    /\ pc[1] = "idle" /\ pc[2] = "idle"
    /\ IF e = 1 THEN RunNumber(1) < MaxRuns
                ELSE Pending /\ NextCall.op = "run_simulation"

\* run_simulation up to the with statement, for a batch size that divides
RunStart(e) ==
    /\ MayRun(e)
    /\ config.batch_size # 0
    /\ calls' = [calls EXCEPT ![e] = Append(@, RunCall(NoReturn))]
    /\ logger' = [logger EXCEPT ![e] = Append(@, [msg |-> "Iniciando", k |-> 0])]
    /\ results' = [results EXCEPT ![e] = <<>>]
    /\ n_batches' = [n_batches EXCEPT ![e] = NumBatches(config)]
    /\ executor' = [executor EXCEPT ![e] =
                       [open |-> TRUE, max_workers |-> MaxWorkers, submitted |-> 0]]
    /\ batch_idx' = [batch_idx EXCEPT ![e] = 0]
    /\ returned' = [returned EXCEPT ![e] = NoReturn]
    /\ pc' = [pc EXCEPT ![e] = "loop"]
    /\ UNCHANGED <<config, rng, distributions, col, batch_data, samples, built,
                   analyzerVars, filterVars>>

\* run_simulation with batch_size = 0: the floor division raises
RunDivisionByZero(e) ==
    /\ MayRun(e)
    /\ config.batch_size = 0
    /\ calls' = [calls EXCEPT ![e] = Append(@, RunCall(Raised("ZeroDivisionError")))]
    /\ logger' = [logger EXCEPT ![e] = Append(@, [msg |-> "Iniciando", k |-> 0])]
    /\ returned' = [returned EXCEPT ![e] = Raised("ZeroDivisionError")]
    /\ UNCHANGED <<config, rng, distributions, pc, batch_idx, n_batches, col,
                   batch_data, results, executor, samples, built, analyzerVars, filterVars>>

\* for batch_idx in range(n_batches): the next batch is begun, with its
\* progress line every 10th batch and the np.zeros of _simulate_batch
BeginBatch(e) ==
    /\ pc[e] = "loop"
    /\ batch_idx[e] < n_batches[e]
    /\ logger' = [logger EXCEPT ![e] =
                     IF batch_idx[e] % 10 = 0
                     THEN Append(@, [msg |-> "Processando lote", k |-> batch_idx[e] + 1])
                     ELSE @]
    /\ batch_data' = [batch_data EXCEPT ![e] =
                         Zeros(config.batch_size, Cardinality(DOMAIN distributions[e]),
                               config.dtype)]
    /\ executor' = [executor EXCEPT ![e] = Dispatch(@)]
    /\ col' = [col EXCEPT ![e] = 0]
    /\ pc' = [pc EXCEPT ![e] = "column"]
    /\ UNCHANGED <<config, rng, distributions, batch_idx, n_batches, results,
                   returned, calls, samples, built, analyzerVars, filterVars>>

\* results[:, i] = dist.sample(batch_size), the value fitting the column
AssignColumn(e) ==
    /\ pc[e] = "column"
    /\ col[e] < Cardinality(DOMAIN distributions[e])
    /\ DoSample(e, col[e], config.batch_size, RunNumber(e), batch_idx[e])
    /\ LET v == samples'[e][Len(samples'[e])].result
       IN  /\ Assignable(config.batch_size, ArrayLen(v))
           /\ batch_data' = [batch_data EXCEPT ![e] = SetColumn(@, col[e], v)]
    /\ col' = [col EXCEPT ![e] = @ + 1]
    /\ UNCHANGED <<config, pc, batch_idx, n_batches, results, returned, executor,
                   calls, built, logger, analyzerVars, filterVars>>

\* results[:, i] = dist.sample(batch_size), the value not fitting the column:
\* the assignment raises ValueError, which nothing catches
ColumnRaises(e) ==
    /\ pc[e] = "column"
    /\ col[e] < Cardinality(DOMAIN distributions[e])
    /\ DoSample(e, col[e], config.batch_size, RunNumber(e), batch_idx[e])
    /\ ~Assignable(config.batch_size,
                   ArrayLen(samples'[e][Len(samples'[e])].result))
    /\ Leave(e, Raised("ValueError"))
    /\ UNCHANGED <<config, batch_idx, n_batches, col, built, logger, analyzerVars,
                   filterVars>>

\* _simulate_batch returns; metrics = _process_batch(batch_data);
\* results.append(metrics); del batch_data
ProcessBatch(e) ==
    /\ pc[e] = "column"
    /\ col[e] = Cardinality(DOMAIN distributions[e])
    /\ results' = [results EXCEPT ![e] = AppendMetrics(@, _process_batch(batch_data[e]))]
    /\ built' = [built EXCEPT ![e] = Append(@,
           [run |-> RunNumber(e), batch |-> batch_idx[e], data |-> batch_data[e]])]
    /\ batch_data' = [batch_data EXCEPT ![e] = None]
    /\ batch_idx' = [batch_idx EXCEPT ![e] = @ + 1]
    /\ pc' = [pc EXCEPT ![e] = "loop"]
    /\ UNCHANGED <<config, rng, distributions, n_batches, col, returned, executor,
                   calls, samples, logger, analyzerVars, filterVars>>

\* the loop is over: the with block is left and results is returned
ReturnResults(e) ==
    /\ pc[e] = "loop"
    /\ batch_idx[e] >= n_batches[e]
    /\ Leave(e, Returned(results[e]))
    /\ UNCHANGED <<config, rng, distributions, batch_idx, n_batches, col, samples,
                   built, logger, analyzerVars, filterVars>>

RunStep(e) ==
    \/ BeginBatch(e)
    \/ AssignColumn(e)
    \/ ColumnRaises(e)
    \/ ProcessBatch(e)
    \/ ReturnResults(e)

Init == InitWith(Configs, {<<>>})

Next ==
    \/ RunStart(1)
    \/ RunDivisionByZero(1)
    \/ RunStep(1)

\* run_simulation calls on a constructed engine, as main() makes them
Spec == Init /\ [][Next]_vars

-----------------------------------------------------------------------------
(* Two engines driven by the same calls *)

\* the configurations and the sizes of the calls that are repeated: a run of
\* two batches, and a run whose first batch raises
DetConfigs == { SimulationConfig(2000, 1000, 2), SimulationConfig(12000, 6000, 2) }
DetSizes == {2500}

InitDet == InitWith(DetConfigs, {<<>>})

NextDet ==
    \/ \E i \in 0 .. config.n_variables - 1 : \E size \in DetSizes :
          DirectSample(i, size)
    \/ ReplaySample
    \/ \E e \in Engines : RunStart(e) \/ RunStep(e)

\* sample() and run_simulation calls on engine 1, repeated on engine 2
SpecDet == InitDet /\ [][NextDet]_vars

-----------------------------------------------------------------------------
(* np.float32 arithmetic of the analyzer *)

(***************************************************************************)
(* A float32 value is kept as an integer number of units, the unit being a *)
(* fixed power of two: float32 arithmetic is the same in every binade.     *)
(* The values used lie in [2^25, 2^26) units, where neighbouring float32   *)
(* values are 4 units apart, so that every sum of up to 7 of them and      *)
(* every mean is at least 2^23 units and rounds to a whole number of       *)
(* units.                                                                  *)
(***************************************************************************)

RECURSIVE Pow2(_)
Pow2(n) == IF n = 0 THEN 1 ELSE 2 * Pow2(n - 1)

\* the spacing of the float32 values around num / den (>= 2^23 units)
RECURSIVE UlpFrom(_, _, _)
UlpFrom(u, num, den) ==
    IF num < Pow2(F32Bits) * u * den THEN u ELSE UlpFrom(2 * u, num, den)

\* num / den rounded to the nearest float32, ties to even
F32Quot(num, den) ==
    LET u == UlpFrom(1, num, den)
        q == num \div (den * u)
        r == num % (den * u)
    IN  IF 2 * r > den * u \/ (2 * r = den * u /\ q % 2 = 1)
        THEN (q + 1) * u
        ELSE q * u

\* np.array([...], dtype=np.float32): each value rounded to float32
Float32Array(a) == [k \in 1 .. Len(a) |-> F32Quot(a[k], 1)]

\* np.add.reduce of fewer than 8 float32 values: a float32 accumulator
\* starting at 0, the values added in order
RECURSIVE NpSum(_)
NpSum(a) ==
    IF Len(a) = 0 THEN 0
    ELSE F32Quot(NpSum(SubSeq(a, 1, Len(a) - 1)) + a[Len(a)], 1)

\* np.mean of a float32 array: the float32 sum divided by the count
NpMean(a) == F32Quot(NpSum(a), Len(a))

NpMin(a) == CHOOSE v \in {a[k] : k \in 1 .. Len(a)} : \A k \in 1 .. Len(a) : v <= a[k]
NpMax(a) == CHOOSE v \in {a[k] : k \in 1 .. Len(a)} : \A k \in 1 .. Len(a) : v >= a[k]

-----------------------------------------------------------------------------
(* MemoryEfficientAnalyzer *)

\* the var fields of the records, float32 values in units
VarValues == {33554472, 33554480}

\* the records the lists handed to the analyzer are made of: every field a
\* float32 value, as _process_batch produces them
MetricsPool ==
    { [mean |-> 33554440, std |-> 33554452, var |-> 33554472],
      [mean |-> 33554440, std |-> 33554452, var |-> 33554480],
      [mean |-> 33554448, std |-> 33554460, var |-> 33554472],
      [mean |-> 33554436, std |-> 33554452, var |-> 33554480] }

MetricLists == UNION {[1 .. k -> MetricsPool] : k \in 0 .. MaxK}

\* means = np.array([r['mean'] for r in self.results], dtype=self.config.dtype)
MeansOf(list) == Float32Array([k \in 1 .. Len(list) |-> list[k].mean])

StdsOf_FromVar(list) == Float32Array([k \in 1 .. Len(list) |-> list[k].var])

\* stds = np.array([r['std'] for r in self.results], dtype=self.config.dtype)
StdsOf(list) == Float32Array([k \in 1 .. Len(list) |-> list[k].std])

compute_aggregate_metrics_NanOnEmpty(list) ==
    IF Len(list) = 0
    THEN Returned([overall_mean |-> "nan", overall_std |-> "nan",
                   min_value |-> "nan", max_value |-> "nan"])
    ELSE Returned([overall_mean |-> NpMean(MeansOf(list)),
                   overall_std  |-> NpMean(StdsOf(list)),
                   min_value    |-> NpMin(MeansOf(list)),
                   max_value    |-> NpMax(MeansOf(list))])

\* compute_aggregate_metrics: np.min of an empty array raises ValueError
compute_aggregate_metrics(list) ==
    LET means == MeansOf(list)
        stds  == StdsOf(list)
    IN  IF Len(list) = 0
        THEN Raised("ValueError")
        ELSE Returned([overall_mean |-> NpMean(means),
                       overall_std  |-> NpMean(stds),
                       min_value    |-> NpMin(means),
                       max_value    |-> NpMax(means)])

\* metrics = analyzer.compute_aggregate_metrics()
ComputeAggregate ==
    /\ metrics = None
    /\ metrics' = compute_aggregate_metrics(an_results)
    /\ UNCHANGED <<engineVars, an_results, figure, filterVars>>

InitAgg == InitWith(SampleConfigs, MetricLists)

NextAgg == ComputeAggregate

\* compute_aggregate_metrics applied to a list of BatchMetrics records
SpecAgg == InitAgg /\ [][NextAgg]_vars

PlotResults_SetsDtype ==
    /\ figure = None
    /\ figure' = [kind |-> "hist", x |-> MeansOf(an_results), bins |-> 50,
                  density |-> TRUE]
    /\ config' = [config EXCEPT !.dtype = "float64"]
    /\ UNCHANGED <<rng, distributions, pc, batch_idx, n_batches, col, batch_data,
                   results, returned, executor, calls, samples, built, logger,
                   an_results, metrics, filterVars>>

\* analyzer.plot_results(): the histogram of the means is drawn; nothing is
\* returned
PlotResults ==
    /\ figure = None
    /\ figure' = [kind |-> "hist", x |-> MeansOf(an_results), bins |-> 50,
                  density |-> TRUE]
    /\ UNCHANGED <<engineVars, an_results, metrics, filterVars>>

\* the lists the analyzer of the whole program is constructed with
MainLists == {list \in MetricLists : Len(list) <= 1}

InitMain == InitWith(Configs, MainLists)

NextMain ==
    \/ RunStart(1)
    \/ RunDivisionByZero(1)
    \/ RunStep(1)
    \/ ComputeAggregate
    \/ PlotResults

\* an engine and an analyzer constructed on one SimulationConfig, and the
\* calls main() makes on them: run_simulation, compute_aggregate_metrics,
\* plot_results
SpecMain == InitMain /\ [][NextMain]_vars

-----------------------------------------------------------------------------
(* filter_and_replace *)

(***************************************************************************)
(* An array object is [shape, dtype, data], data being its entries in row  *)
(* order.  A number is kept as a count of halves (1 is 0.5, -3 is -1.5),   *)
(* so that values an int64 array cannot hold are among the new values.    *)
(***************************************************************************)

\* entries of the float64 arrays (np.random.randn gives both signs) and of
\* the int64 arrays (whole numbers)
EntryValues(dtype) == IF dtype = "int64" THEN {-2, 0, 2} ELSE {-3, -2, 1, 2}

\* the values passed as new_value: 0 as in the notebook, 0.5 and -1
NewValues == {0, 1, -2}

\* the shapes of an array of n entries: one dimension, or rows by columns
Shapes(n) ==
    {<<n>>} \cup {x \in {<<r, c>> : r \in 1 .. n, c \in 1 .. n} : x[1] * x[2] = n}

Arrays ==
    UNION { { [shape |-> sh, dtype |-> dt, data |-> d] :
                sh \in Shapes(n), d \in [1 .. n -> EntryValues(dt)] } :
            n \in 0 .. MaxLen, dt \in {"float64", "int64"} }

\* the conditions passed: x < 0 as in the notebook, x > 0, one that matches
\* nothing, and one that is not element-wise
Conditions == {"x < 0", "x > 0", "x > 100", "x > x.sum()"}

ElementWise == {"x < 0", "x > 0", "x > 100"}

RECURSIVE SumTo(_, _)
SumTo(d, n) == IF n = 0 THEN 0 ELSE SumTo(d, n - 1) + d[n]

\* condition(arr): the boolean array the condition returns
Mask(cond, a) ==
    [k \in DOMAIN a.data |->
        CASE cond = "x < 0" -> a.data[k] < 0
          [] cond = "x > 0" -> a.data[k] > 0
          [] cond = "x > 100" -> a.data[k] > 200
          [] cond = "x > x.sum()" -> a.data[k] > SumTo(a.data, Len(a.data))]

\* the value numpy stores in an array of the dtype: an int64 array keeps
\* the whole part, truncated toward zero
Cast(dtype, v) ==
    IF dtype = "int64"
    THEN IF v >= 0 THEN (v \div 2) * 2 ELSE -(((-v) \div 2) * 2)
    ELSE v

SetItem_All(a, mask, v) ==
    [a EXCEPT !.data = [k \in DOMAIN a.data |-> Cast(a.dtype, v)]]

\* arr[mask] = new_value
SetItem(a, mask, v) ==
    [a EXCEPT !.data = [k \in DOMAIN a.data |->
                           IF mask[k] THEN Cast(a.dtype, v) ELSE a.data[k]]]

filter_and_replace_copy(h, ref, cond, v) ==
    LET new == CHOOSE id \in ObjectIds : id # ref
    IN  [heap |-> [h EXCEPT ![new] = SetItem(h[ref], Mask(cond, h[ref]), v)],
         ret  |-> new]

\* filter_and_replace(arr, condition, new_value) on the array object ref of
\* heap h: the heap after the call and the object returned
filter_and_replace(h, ref, cond, v) ==
    [heap |-> [h EXCEPT ![ref] = SetItem(h[ref], Mask(cond, h[ref]), v)],
     ret  |-> ref]

\* arr = filter_and_replace(arr, cond, v), and the record of the call
CallFilter(cond, v) ==
    LET r == filter_and_replace(heap, arr, cond, v)
    IN  /\ heap' = r.heap
        /\ arr' = r.ret
        /\ fr_calls' = Append(fr_calls,
              [cond |-> cond, new_value |-> v, arg |-> arr, ret |-> r.ret,
               before |-> heap[arr], mask |-> Mask(cond, heap[arr]),
               arg_after |-> r.heap[arr], after |-> r.heap[r.ret]])
        /\ UNCHANGED <<engineVars, analyzerVars>>

\* the caller's first call
FilterAndReplace(cond, v) ==
    /\ fr_calls = <<>>
    /\ CallFilter(cond, v)

\* the caller applies the same condition and value again
Reapply ==
    /\ fr_calls # <<>>
    /\ Len(fr_calls) < MaxApply
    /\ CallFilter(fr_calls[1].cond, fr_calls[1].new_value)

InitFilter ==
    /\ InitEngines(SampleConfigs, {<<>>})
    /\ arr = 1
    /\ heap \in {[id \in ObjectIds |-> IF id = 1 THEN a ELSE None] : a \in Arrays}
    /\ fr_calls = <<>>

NextFilter ==
    \/ \E cond \in Conditions : \E v \in NewValues : FilterAndReplace(cond, v)
    \/ Reapply

\* filter_and_replace applied to an array, once or repeatedly
SpecFilter == InitFilter /\ [][NextFilter]_vars

-----------------------------------------------------------------------------
(* Claims about sample() *)

\* every sample() call recorded so far, of either engine
SampleEvents == UNION {{<<e, k>> : k \in 1 .. Len(samples[e])} : e \in Engines}

Ev(x) == samples[x[1]][x[2]]

\* what a caller can observe of a refill: the generator has been drawn from
Refilled(s) == s.rng_after # s.rng_before

HadCache(s) == s.before # None

\* the next sample() call on the same distribution of the same engine
IsNextOnDist(x, y) ==
    /\ x[1] = y[1] /\ x[2] < y[2] /\ Ev(x).dist = Ev(y).dist
    /\ \A k \in x[2] + 1 .. y[2] - 1 : samples[x[1]][k].dist # Ev(x).dist

\* C1: every sample(size) call with 0 <= size <= cache_size returns exactly
\* size values, on a fresh distribution as after any earlier calls.
C1_ExactSize ==
    \A x \in SampleEvents :
        (0 <= Ev(x).size /\ Ev(x).size <= CacheSize)
            => ArrayLen(Ev(x).result) = Ev(x).size

\* a call on a fresh distribution, and a later call that finds a cache shorter
\* than the request, both served in full
C1_Witness ==
    /\ \E x \in SampleEvents :
          ~HadCache(Ev(x)) /\ Ev(x).size > 0 /\ ArrayLen(Ev(x).result) = Ev(x).size
    /\ \E x \in SampleEvents :
          /\ HadCache(Ev(x)) /\ 0 < ArrayLen(Ev(x).before)
          /\ ArrayLen(Ev(x).before) < Ev(x).size /\ Ev(x).size <= CacheSize
          /\ ArrayLen(Ev(x).result) = Ev(x).size

\* C2: sample(size) refills exactly when the cache is absent or shorter than
\* size; a refill replaces the cache by cache_size fresh draws and drops what
\* was left; otherwise the old cache is reused and nothing is drawn.
C2_RefillPolicy ==
    \A x \in SampleEvents :
        LET s == Ev(x) IN
        /\ Refilled(s) <=> (~HadCache(s) \/ ArrayLen(s.before) < s.size)
        /\ Refilled(s) =>
              /\ s.rng_after = Advance(s.rng_before, CacheSize)
              /\ s.result.first = s.rng_before.pos
              /\ s.after.first = s.result.first + ArrayLen(s.result)
              /\ ArrayLen(s.result) + ArrayLen(s.after) = CacheSize
        /\ ~Refilled(s) =>
              /\ s.rng_after = s.rng_before
              /\ s.result.first = s.before.first
              /\ s.result.first + ArrayLen(s.result) = s.after.first
              /\ ArrayLen(s.result) + ArrayLen(s.after) = ArrayLen(s.before)

\* a refill that drops a non-empty remainder, and a call served from the
\* cache without a draw
C2_Witness ==
    /\ \E x \in SampleEvents :
          Refilled(Ev(x)) /\ HadCache(Ev(x)) /\ ArrayLen(Ev(x).before) > 0
    /\ \E x \in SampleEvents :
          /\ ~Refilled(Ev(x)) /\ Ev(x).size > 0
          /\ ArrayLen(Ev(x).before) >= Ev(x).size

\* C3: a call with size > cache_size returns exactly cache_size values and
\* leaves the cache empty, and the next call on that distribution with
\* size >= 1 refills again.
C3_OversizedRequest ==
    \A x \in SampleEvents :
        Ev(x).size > CacheSize =>
            /\ Refilled(Ev(x))
            /\ ArrayLen(Ev(x).result) = CacheSize
            /\ ArrayLen(Ev(x).result) < Ev(x).size
            /\ ArrayLen(Ev(x).after) = 0
            /\ \A y \in SampleEvents :
                  (IsNextOnDist(x, y) /\ Ev(y).size >= 1) => Refilled(Ev(y))

\* an oversized call followed by a call on the same distribution
C3_Witness ==
    \E x, y \in SampleEvents :
        /\ Ev(x).size > CacheSize /\ IsNextOnDist(x, y) /\ Ev(y).size >= 1
        /\ ArrayLen(Ev(x).result) = CacheSize /\ Refilled(Ev(y))

\* the cache a call slices: the fresh block after a refill, else the old one
SlicedFirst(s) == IF Refilled(s) THEN s.rng_before.pos ELSE s.before.first
SlicedLen(s) == IF Refilled(s) THEN CacheSize ELSE ArrayLen(s.before)

\* C4: the values returned are the first size elements of the cache as it
\* stood after the optional refill, they are removed from the cache, whose
\* length becomes max(L - size, 0), and without a refill the cache does not grow.
C4_PrefixRemoved ==
    \A x \in SampleEvents :
        LET s == Ev(x)
            d == distributions[x[1]][s.dist]
        IN  /\ s.result.first = SlicedFirst(s)
            /\ ArrayLen(s.result) = Min(s.size, SlicedLen(s))
            /\ s.after.first = SlicedFirst(s) + ArrayLen(s.result)
            /\ ArrayLen(s.after) = Max(SlicedLen(s) - s.size, 0)
            /\ \A a \in {s.result, s.after} :
                  /\ a.seed = s.rng_before.seed /\ a.dtype = d.dtype
                  /\ a.mu = d.mu /\ a.sigma = d.sigma
            /\ ~Refilled(s) => ArrayLen(s.after) <= ArrayLen(s.before)

\* a call served from the middle of a cache: a strict prefix is taken
C4_Witness ==
    \E x \in SampleEvents :
        /\ ~Refilled(Ev(x)) /\ 0 < Ev(x).size
        /\ Ev(x).size < ArrayLen(Ev(x).before)
        /\ ArrayLen(Ev(x).after) = ArrayLen(Ev(x).before) - Ev(x).size

-----------------------------------------------------------------------------
(* Claims about run_simulation *)

Running(e) == pc[e] # "idle"

NumVariables(e) == Cardinality(DOMAIN distributions[e])

\* the run_simulation calls of engine e that have returned or raised
CompletedRuns(e) ==
    {k \in 1 .. Len(calls[e]) :
        calls[e][k].op = "run_simulation" /\ calls[e][k].ret.status # "none"}

\* the number of run_simulation calls among the first k calls of engine e
RunIndex(e, k) ==
    Cardinality({j \in 1 .. k : calls[e][j].op = "run_simulation"})

\* the batches engine e built in its run number r
BatchesOfRun(e, r) == {k \in 1 .. Len(built[e]) : built[e][k].run = r}

IsBatchMetrics(r) == DOMAIN r = {"mean", "std", "var"}

\* the steps run_simulation still has to take
StepsLeft(e) ==
    CASE pc[e] = "idle" -> 0
      [] pc[e] = "loop" ->
            (n_batches[e] - batch_idx[e]) * (NumVariables(e) + 2) + 1
      [] pc[e] = "column" ->
            (n_batches[e] - batch_idx[e] - 1) * (NumVariables(e) + 2)
                + (NumVariables(e) - col[e]) + 2

\* C5 as stated: every run_simulation call returns a list of exactly
\* floor(n_simulations / batch_size) records, whatever the configuration
\* (of those in which the quotient is defined).
C5_Original ==
    config.batch_size >= 1 =>
    \A e \in Engines : \A k \in CompletedRuns(e) :
        /\ calls[e][k].ret.status = "returned"
        /\ Len(calls[e][k].ret.value) = config.n_simulations \div config.batch_size

\* the configurations in which every batch's request fits the cache, or in
\* which no batch is sampled
C5_Applies ==
    /\ config.batch_size >= 1
    /\ config.batch_size <= CacheSize \/ config.n_simulations < config.batch_size

C5_Returns ==
    C5_Applies =>
        \A e \in Engines :
            /\ Running(e) =>
                  /\ batch_idx[e] <= n_batches[e]
                  /\ StepsLeft(e) >= 1
                  /\ ENABLED RunStep(e)
            /\ \A k \in CompletedRuns(e) :
                  LET ret == calls[e][k].ret IN
                  /\ ret.status = "returned"
                  /\ Len(ret.value) = config.n_simulations \div config.batch_size
                  /\ \A j \in 1 .. Len(ret.value) : IsBatchMetrics(ret.value[j])
                  /\ (config.n_simulations = 40000 /\ config.batch_size = 1000)
                        => Len(ret.value) = 40

C5_Progress ==
    \A e \in Engines : Running(e) => StepsLeft(e)' < StepsLeft(e)

\* C5 (amended): for n_simulations >= 0, when 1 <= batch_size <= cache_size,
\* or n_simulations < batch_size with batch_size >= 1, run_simulation
\* terminates (every step of a running call lowers the number of steps left
\* and a running call can always step) and returns a list of exactly floor(n_simulations / batch_size)
\* records of the fields mean, std and var; 40 of them for 40000 / 1000.
C5_TerminatesWithFloor == []C5_Returns /\ [][C5_Progress]_vars

\* the notebook's configuration has returned its 40 records
C5_Witness ==
    /\ config.n_simulations = 40000 /\ config.batch_size = 1000
    /\ returned[1].status = "returned" /\ Len(returned[1].value) = 40
    /\ \A j \in 1 .. 40 : IsBatchMetrics(returned[1].value[j])

\* the sample() call that filled column c of batch b
FilledBy(e, b, c) ==
    {k \in 1 .. Len(samples[e]) :
        /\ samples[e][k].run = b.run /\ samples[e][k].batch = b.batch
        /\ samples[e][k].dist = c}

\* C6: with batch_size <= cache_size no batch raises, and every batch built
\* is a (batch_size x n_variables) matrix whose column i holds exactly the
\* batch_size values distribution i returned for that batch; the scenario
\* 4000 / 1000 / 4 builds exactly 4 batches of shape (1000, 4).
C6_BatchesFull ==
    config.batch_size <= CacheSize =>
        \A e \in Engines :
            /\ \A k \in CompletedRuns(e) : calls[e][k].ret # Raised("ValueError")
            /\ \A k \in 1 .. Len(built[e]) :
                  LET b == built[e][k] IN
                  /\ b.data.shape = <<config.batch_size, config.n_variables>>
                  /\ DOMAIN b.data.columns = 0 .. config.n_variables - 1
                  /\ \A c \in DOMAIN b.data.columns :
                        /\ Cardinality(FilledBy(e, b, c)) = 1
                        /\ \A x \in FilledBy(e, b, c) :
                              /\ b.data.columns[c] = samples[e][x].result
                              /\ ArrayLen(samples[e][x].result) = config.batch_size
                              /\ samples[e][x].result.mu = distributions[e][c].mu
            /\ (config = SimulationConfig(4000, 1000, 4)) =>
                  \A k \in CompletedRuns(e) :
                      /\ Cardinality(BatchesOfRun(e, RunIndex(e, k))) = 4
                      /\ \A j \in BatchesOfRun(e, RunIndex(e, k)) :
                            built[e][j].data.shape = <<1000, 4>>

\* the scenario has run to its end, and a run that had to refill over a
\* remainder has built its batches
C6_Witness ==
    /\ config = SimulationConfig(4000, 1000, 4)
    /\ returned[1].status = "returned"
    /\ Cardinality(BatchesOfRun(1, 1)) = 4
    /\ \A c \in 0 .. 3 : built[1][4].data.columns[c].n = 1000

\* the batch of index j of the current run of engine e
CurrentBatch(e, j) ==
    {k \in 1 .. Len(built[e]) : built[e][k].run = RunNumber(e) /\ built[e][k].batch = j}

C7_Ordered ==
    \A e \in Engines :
        Running(e) =>
            /\ Len(results[e]) = batch_idx[e]
            /\ \A j \in 1 .. Len(results[e]) :
                  /\ CurrentBatch(e, j - 1) # {}
                  /\ \A k \in CurrentBatch(e, j - 1) :
                        results[e][j] = _process_batch(built[e][k].data)
            /\ \A k \in 1 .. Len(samples[e]) :
                  samples[e][k].run = RunNumber(e)
                      => samples[e][k].batch <= Len(results[e])

C7_AppendOnly ==
    \A e \in Engines :
        /\ (Running(e) /\ Running(e)') =>
              \/ results[e]' = results[e]
              \/ /\ Len(results[e]') = Len(results[e]) + 1
                 /\ SubSeq(results[e]', 1, Len(results[e])) = results[e]
        /\ (Running(e) /\ ~Running(e)' /\ returned[e]'.status = "returned") =>
              returned[e]'.value = results[e]
        /\ \A k \in CompletedRuns(e) : calls[e]'[k] = calls[e][k]

\* C7: entry j of the result list is the metrics of batch j, batch j+1 is
\* not sampled before the metrics of batch j are appended, and an entry once
\* appended is never reordered, replaced or removed.
C7_BatchOrder == []C7_Ordered /\ [][C7_AppendOnly]_vars

\* a batch is being sampled while the metrics of two earlier ones are listed
C7_Witness ==
    /\ pc[1] = "column" /\ col[1] > 0 /\ batch_idx[1] = 2
    /\ Len(results[1]) = 2
    /\ results[1][1] # results[1][2]

-----------------------------------------------------------------------------
(* Claims about reproducibility *)

BothIdle == pc[1] = "idle" /\ pc[2] = "idle"

\* the calls engine 2 has completed
Repeated == {k \in 1 .. Len(calls[2]) : k < Len(calls[2]) \/ pc[2] = "idle"}

\* C8: two engines built from the same configuration and seed and driven by
\* the same calls return the same values at every call and end in the same
\* cache and generator states.
C8_Deterministic ==
    /\ \A k \in Repeated : calls[2][k] = calls[1][k]
    /\ (BothIdle /\ Len(calls[2]) = Len(calls[1])) =>
          /\ rng[2] = rng[1]
          /\ distributions[2] = distributions[1]
          /\ samples[2] = samples[1]
          /\ returned[2] = returned[1]

\* engine 2 has repeated a direct call that refilled and a run
C8_Witness ==
    /\ BothIdle /\ Len(calls[2]) = Len(calls[1]) /\ Len(calls[2]) >= 3
    /\ \E k \in Repeated : calls[2][k].op = "sample" /\ ArrayLen(calls[2][k].ret) > 0
    /\ \E k \in Repeated :
          /\ calls[2][k].op = "run_simulation"
          /\ calls[2][k].ret.status = "returned" /\ Len(calls[2][k].ret.value) = 2
    /\ rng[2] = rng[1] /\ rng[2].pos > 2 * config.n_variables

-----------------------------------------------------------------------------
(* Claims about compute_aggregate_metrics *)

Aggregated == metrics # None /\ metrics.status = "returned"

Column(list, field) == [k \in 1 .. Len(list) |-> list[k][field]]

\* C9: on a list of k >= 1 records compute_aggregate_metrics returns
\* min_value <= overall_mean <= max_value.
C9_MeanWithinRange ==
    Aggregated =>
        /\ metrics.value.min_value <= metrics.value.overall_mean
        /\ metrics.value.overall_mean <= metrics.value.max_value

\* the list with every var field replaced by one value
WithVar(list, v) == [k \in 1 .. Len(list) |-> [list[k] EXCEPT !.var = v]]

\* C10: overall_mean is the mean of the per-batch means, overall_std the
\* mean of the per-batch stds, min_value and max_value the least and the
\* greatest per-batch mean, and the var fields influence no output.
C10_Aggregates ==
    Aggregated =>
        LET m == metrics.value
            means == Column(an_results, "mean")
            stds == Column(an_results, "std")
        IN  /\ m.overall_mean = NpMean(means)
            /\ m.overall_std = NpMean(stds)
            /\ m.min_value \in {means[k] : k \in 1 .. Len(means)}
            /\ m.max_value \in {means[k] : k \in 1 .. Len(means)}
            /\ \A k \in 1 .. Len(means) :
                  m.min_value <= means[k] /\ means[k] <= m.max_value
            /\ \A v \in VarValues :
                  compute_aggregate_metrics(WithVar(an_results, v)) = metrics

\* a list whose stds differ from its vars, whose means differ among
\* themselves, has been aggregated
C10_Witness ==
    /\ Aggregated /\ Len(an_results) >= 3
    /\ \E j, k \in 1 .. Len(an_results) :
          /\ an_results[j].mean < an_results[k].mean
          /\ an_results[j].var # an_results[k].var
          /\ an_results[j].std # an_results[k].std
    /\ metrics.value.min_value < metrics.value.max_value
    /\ metrics.value.overall_std # metrics.value.overall_mean

-----------------------------------------------------------------------------
(* Claims about filter_and_replace *)

FilterCalls == 1 .. Len(fr_calls)

Matches(c) == {k \in DOMAIN c.before.data : Mask(c.cond, c.before)[k]}

\* C11: filter_and_replace sets every entry for which the predicate holds
\* on the array as it was before the call to new_value, leaves every other
\* entry with its prior value and does not change the shape.
C11_FrameEffect ==
    \A j \in FilterCalls :
        LET c == fr_calls[j] IN
        /\ c.after.shape = c.before.shape
        /\ DOMAIN c.after.data = DOMAIN c.before.data
        /\ \A k \in DOMAIN c.before.data :
              IF k \in Matches(c)
              THEN c.after.data[k] = c.new_value
              ELSE c.after.data[k] = c.before.data[k]

\* C12: a call whose predicate matches no entry leaves the array as it was,
\* for every new_value.
C12_NoMatchNoOp ==
    \A j \in FilterCalls :
        Matches(fr_calls[j]) = {} =>
            /\ fr_calls[j].after = fr_calls[j].before
            /\ fr_calls[j].arg_after = fr_calls[j].before

\* a call on a non-empty array none of whose entries matches, with a
\* new_value that is none of its entries
C12_Witness ==
    \E j \in FilterCalls :
        LET c == fr_calls[j] IN
        /\ Matches(c) = {} /\ Len(c.before.data) >= 2
        /\ \A k \in DOMAIN c.before.data : c.before.data[k] # c.new_value
        /\ c.after = c.before

\* C20: for an element-wise predicate a second application with the same
\* predicate and new_value leaves the array equal to the result of the
\* first, also when new_value satisfies the predicate; the array returned
\* is the caller's array object, changed in place.
C20_Idempotent ==
    \A j \in FilterCalls :
        LET c == fr_calls[j] IN
        /\ c.ret = c.arg
        /\ c.arg_after = c.after
        /\ heap[c.arg] = fr_calls[Len(fr_calls)].after
        /\ (j > 1 /\ c.cond \in ElementWise) => c.after = fr_calls[j - 1].after

\* x < 0 replaced by -1 has been applied twice to an array the first
\* application changed
C20_Witness ==
    /\ Len(fr_calls) = 2
    /\ fr_calls[1].cond = "x < 0" /\ fr_calls[1].new_value < 0
    /\ fr_calls[1].after # fr_calls[1].before
    /\ Matches(fr_calls[2]) # {}
    /\ fr_calls[2].after = fr_calls[1].after
    /\ fr_calls[2].ret = 1

-----------------------------------------------------------------------------
(* Claims about failures of run_simulation *)

\* what the run_simulation call number r of engine e gave its caller
RunRet(e, r) ==
    calls[e][CHOOSE k \in 1 .. Len(calls[e]) :
                calls[e][k].op = "run_simulation" /\ RunIndex(e, k) = r].ret

\* the sample() calls of the runs whose value did not fit the batch column
FailedSamples(e) ==
    {k \in 1 .. Len(samples[e]) :
        /\ samples[e][k].run >= 1
        /\ ~Assignable(samples[e][k].size, ArrayLen(samples[e][k].result))}

\* C13: an exception raised while a batch is built leaves run_simulation
\* uncaught: the caller receives the exception and no list, the run makes no
\* further sample() call (no retry) and builds no further batch, and the
\* batches built so far are not handed over.
C13_Propagates ==
    \A e \in Engines :
        /\ \A k \in FailedSamples(e) :
              LET s == samples[e][k] IN
              /\ RunRet(e, s.run).status = "raised"
              /\ RunRet(e, s.run).error = "ValueError"
              /\ \A j \in 1 .. Len(samples[e]) : j > k => samples[e][j].run # s.run
              /\ \A b \in BatchesOfRun(e, s.run) : built[e][b].batch < s.batch
              /\ s.run = RunNumber(e) =>
                    /\ ~Running(e)
                    /\ returned[e].status = "raised"
                    /\ results[e] = <<>>
        /\ \A k \in CompletedRuns(e) :
              calls[e][k].ret.status = "raised" =>
                  "value" \notin DOMAIN calls[e][k].ret

\* a run of two batches has raised in its first column: one sample() call,
\* no batch built, the exception with the caller
C13_Witness ==
    /\ FailedSamples(1) # {}
    /\ n_batches[1] >= 2
    /\ returned[1].status = "raised" /\ returned[1].error = "ValueError"
    /\ built[1] = <<>>
    /\ \A k \in 1 .. Len(samples[1]) : samples[1][k].batch = 0 /\ samples[1][k].dist = 0

-----------------------------------------------------------------------------
(* Claims about the worker pool *)

\* the sample() calls engine e made for batch b of its run r
SamplesOfBatch(e, r, b) ==
    {k \in 1 .. Len(samples[e]) : samples[e][k].run = r /\ samples[e][k].batch = b}

\* C14: during run_simulation the pool of 4 workers is never handed a task;
\* at most one batch is in progress (a batch is begun only when every
\* earlier batch of the run is finished), every sample() call runs on the
\* calling thread, and the accesses to the shared generator and to the
\* caches are serial: each call finds the generator as the previous call
\* left it.
C14_NoPoolTask ==
    \A e \in Engines :
        /\ executor[e].submitted = 0
        /\ executor[e].open => executor[e].max_workers = 4 /\ Running(e)
        /\ \A k \in 1 .. Len(samples[e]) :
              LET s == samples[e][k] IN
              /\ s.thread = "MainThread"
              /\ s.rng_before = IF k = 1 THEN RngAfterInit(config, default_rng(e))
                                        ELSE samples[e][k - 1].rng_after
              /\ s.run >= 1 =>
                    /\ s.dist = Cardinality({j \in SamplesOfBatch(e, s.run, s.batch) : j < k})
                    /\ \A j \in 1 .. k - 1 :
                          samples[e][j].run = s.run => samples[e][j].batch <= s.batch
        /\ Running(e) =>
              /\ Cardinality(BatchesOfRun(e, RunNumber(e))) = batch_idx[e]
              /\ \A k \in SamplesOfBatch(e, RunNumber(e), batch_idx[e]) :
                    pc[e] = "column" /\ samples[e][k].dist < col[e]
              /\ \A k \in 1 .. Len(samples[e]) :
                    samples[e][k].run = RunNumber(e) => samples[e][k].batch <= batch_idx[e]

\* the pool is open and a later batch of the notebook's run is part built
C14_Witness ==
    /\ executor[1].open /\ executor[1].max_workers = 4
    /\ config.n_simulations = 40000
    /\ pc[1] = "column" /\ batch_idx[1] >= 6 /\ col[1] = 2
    /\ Cardinality(SamplesOfBatch(1, 1, batch_idx[1])) = 2

-----------------------------------------------------------------------------
(* Claims about the configuration *)

ConfigFields ==
    {"n_simulations", "batch_size", "n_variables", "confidence_level",
     "max_memory_usage", "dtype"}

C15_Fields == ConfigFields \subseteq DOMAIN config /\ config \in Configs

C15_Kept == config' = config

\* C15: the SimulationConfig is read-only after creation: it has the six
\* fields named (and optimization_target) as constructed, and no step of run_simulation,
\* compute_aggregate_metrics or plot_results on the engine and the analyzer
\* constructed with it changes a field.
C15_ConfigReadOnly == []C15_Fields /\ [][C15_Kept]_vars

\* a run has returned its batches, the metrics were computed and the
\* histogram drawn, all on the configuration of the notebook
C15_Witness ==
    /\ config = SimulationConfig(40000, 1000, 4)
    /\ returned[1].status = "returned" /\ Len(returned[1].value) = 40
    /\ metrics # None /\ figure # None /\ an_results # <<>>

-----------------------------------------------------------------------------
(* Claims about a batch larger than the cache *)

\* the sample() calls engine e made in its run r
SamplesOfRun(e, r) == {k \in 1 .. Len(samples[e]) : samples[e][k].run = r}

C16_Applies ==
    /\ config.batch_size > CacheSize
    /\ config.n_simulations >= config.batch_size

\* every finished run of engine e raised in the first column of its first
\* batch, on cache_size values returned for batch_size asked, and no run
\* has produced a BatchMetrics record
C16_Fails(e) ==
    /\ results[e] = <<>> /\ built[e] = <<>>
    /\ Running(e) => batch_idx[e] = 0 /\ col[e] = 0
    /\ \A k \in CompletedRuns(e) :
          /\ calls[e][k].ret.status = "raised"
          /\ calls[e][k].ret.error = "ValueError"
          /\ Cardinality(SamplesOfRun(e, RunIndex(e, k))) = 1
          /\ \A j \in SamplesOfRun(e, RunIndex(e, k)) :
                LET s == samples[e][j] IN
                /\ s.batch = 0 /\ s.dist = 0
                /\ s.size = config.batch_size
                /\ ArrayLen(s.result) = CacheSize
                /\ ~Assignable(config.batch_size, ArrayLen(s.result))

\* C16 as stated: with batch_size > cache_size and n_simulations >=
\* batch_size every run fails in the first batch on the first distribution
\* and produces no BatchMetrics record.
C16_Original == C16_Applies => \A e \in Engines : C16_Fails(e)

\* C16 (amended): with batch_size > cache_size (5000), n_simulations >=
\* batch_size and n_variables >= 1, run_simulation fails in the first batch
\* on the first distribution: sample returns only cache_size values, the
\* assignment to the batch_size-long column raises, and no BatchMetrics
\* record is ever produced.
C16_FailsFirstColumn ==
    (C16_Applies /\ config.n_variables >= 1) => \A e \in Engines : C16_Fails(e)

\* two runs on 12000 / 6000 / 2 have each raised on their first sample()
C16_Witness ==
    /\ config = SimulationConfig(12000, 6000, 2)
    /\ Cardinality(CompletedRuns(1)) = 2 /\ ~Running(1)
    /\ returned[1].status = "raised"
    /\ Len(samples[1]) = 2
    /\ ArrayLen(samples[1][2].result) = 5000

-----------------------------------------------------------------------------
(* Claims about the refills of a run *)

\* the state of a cache as sample() tests it: absent, or its length
CacheLen(d) == IF d.cached_samples = None THEN -1 ELSE ArrayLen(d.cached_samples)

\* engine e is between two batches, before its first or after its last
AtBatchBoundary(e) == pc[e] \in {"idle", "loop"}

\* batch b of run r of engine e is no longer being built
BatchOver(e, r, b) ==
    ~(pc[e] = "column" /\ r = RunNumber(e) /\ b = batch_idx[e])

\* the batches engine e built before batch b of its run r
BuiltBefore(e, r, b) ==
    {k \in 1 .. Len(built[e]) :
        \/ built[e][k].run < r
        \/ built[e][k].run = r /\ built[e][k].batch < b}

\* at a batch boundary the caches of all distributions have one length
C17_SameLength(e) ==
    AtBatchBoundary(e) =>
        \A i, j \in DOMAIN distributions[e] :
            CacheLen(distributions[e][i]) = CacheLen(distributions[e][j])

\* in a batch every distribution refills or none does, the refills drawing
\* from the generator one after the other in index order
C17_AllOrNone(e) ==
    \A k \in 1 .. Len(samples[e]) :
        LET s == samples[e][k]
            same == SamplesOfBatch(e, s.run, s.batch)
        IN  /\ (Refilled(s) /\ BatchOver(e, s.run, s.batch)) =>
                  /\ Cardinality(same) = NumVariables(e)
                  /\ \A j \in same : Refilled(samples[e][j])
            /\ (Refilled(s) /\ k + 1 \in same) =>
                  /\ samples[e][k + 1].dist = s.dist + 1
                  /\ Refilled(samples[e][k + 1])
                  /\ samples[e][k + 1].rng_before = s.rng_after
                  /\ samples[e][k + 1].rng_after.pos = s.rng_after.pos + CacheSize
            /\ Refilled(s) => \A j \in same : j < k => Refilled(samples[e][j])

\* a refill finds no cache or an empty one: nothing drawn is thrown away
C17_NoDiscard(e) ==
    \A k \in 1 .. Len(samples[e]) :
        Refilled(samples[e][k]) =>
            \/ samples[e][k].before = None
            \/ ArrayLen(samples[e][k].before) = 0

\* C17 as stated: at every batch boundary all distributions have the same
\* cache length, in any batch every distribution refills or none does, in
\* index order; with batch_size 1000 a distribution refills exactly in the
\* batches whose index in the run is a multiple of 5, discarding nothing.
C17_Original ==
    \A e \in Engines :
        /\ C17_SameLength(e)
        /\ C17_AllOrNone(e)
        /\ config.batch_size = 1000 =>
              /\ C17_NoDiscard(e)
              /\ \A k \in 1 .. Len(samples[e]) :
                    Refilled(samples[e][k]) <=> samples[e][k].batch % 5 = 0

\* C17 (amended): for 1 <= batch_size <= cache_size, on an engine sampled
\* only by run_simulation: at every batch boundary all distributions have
\* the same cache length, in any batch every distribution refills or none
\* does, the refills drawing in index order; with batch_size 1000 a
\* distribution refills exactly in the batches whose number, counted from
\* the construction of the engine over all its runs, is a multiple of 5 (in
\* the first run: whose index is), and no drawn sample is discarded.
C17_RefillsTogether ==
    (config.batch_size >= 1 /\ config.batch_size <= CacheSize) =>
    \A e \in Engines :
        /\ C17_SameLength(e)
        /\ C17_AllOrNone(e)
        /\ config.batch_size = 1000 =>
              /\ C17_NoDiscard(e)
              /\ \A k \in 1 .. Len(samples[e]) :
                    LET s == samples[e][k] IN
                    /\ Refilled(s) <=>
                          Cardinality(BuiltBefore(e, s.run, s.batch)) % 5 = 0
                    /\ s.run = 1 => (Refilled(s) <=> s.batch % 5 = 0)

\* the second run of 4000 / 1000 / 4 has refilled all four caches in its
\* batch 1, the fifth batch since construction, and is over
C17_Witness ==
    /\ config = SimulationConfig(4000, 1000, 4)
    /\ Cardinality(CompletedRuns(1)) = 2
    /\ Cardinality({k \in SamplesOfBatch(1, 2, 1) : Refilled(samples[1][k])}) = 4
    /\ \A k \in SamplesOfBatch(1, 2, 0) : ~Refilled(samples[1][k])
    /\ \A i \in DOMAIN distributions[1] : CacheLen(distributions[1][i]) = 2000

-----------------------------------------------------------------------------
(* Claims about the values a distribution returns *)

\* the positions of the generator's stream an array holds the draws of
Positions(a) == a.first .. a.first + ArrayLen(a) - 1

\* the last refill of the distribution of call x, up to that call
LastRefill(x) ==
    CHOOSE z \in SampleEvents :
        /\ z[1] = x[1] /\ z[2] <= x[2] /\ Ev(z).dist = Ev(x).dist /\ Refilled(Ev(z))
        /\ \A w \in SampleEvents :
              (w[1] = x[1] /\ w[2] <= x[2] /\ Ev(w).dist = Ev(x).dist /\ Refilled(Ev(w)))
                  => w[2] <= z[2]

\* C18: over the sample() calls on one distribution, the values returned
\* are draws of that distribution's refills, each returned at most once and
\* in the order drawn: a later call returns only draws made after those
\* every earlier call returned, and what a refill finds left in the cache
\* is never returned.
C18_AtMostOnce ==
    \A x \in SampleEvents :
        /\ Ev(x).result.seed = Ev(x).rng_before.seed
        /\ Positions(Ev(x).result) \subseteq
              Ev(LastRefill(x)).rng_before.pos ..
                  Ev(LastRefill(x)).rng_before.pos + CacheSize - 1
        /\ \A y \in SampleEvents :
              (x[1] = y[1] /\ x[2] < y[2] /\ Ev(x).dist = Ev(y).dist) =>
                  /\ Positions(Ev(x).result) \cap Positions(Ev(y).result) = {}
                  /\ Ev(x).result.first + ArrayLen(Ev(x).result) <= Ev(y).result.first
        /\ \A y \in SampleEvents :
              (x[1] = y[1] /\ x[2] <= y[2] /\ Ev(x).dist = Ev(y).dist
                  /\ Refilled(Ev(x)) /\ HadCache(Ev(x))) =>
                  Positions(Ev(x).before) \cap Positions(Ev(y).result) = {}

\* three calls on one distribution: a refill, a call served from the cache,
\* and a refill that discards what the cache still held
C18_Witness ==
    \E x, y, z \in SampleEvents :
        /\ x[1] = 1 /\ y[1] = 1 /\ z[1] = 1
        /\ x[2] < y[2] /\ y[2] < z[2]
        /\ Ev(x).dist = Ev(y).dist /\ Ev(y).dist = Ev(z).dist
        /\ Refilled(Ev(x)) /\ ArrayLen(Ev(x).result) > 0
        /\ ~Refilled(Ev(y)) /\ ArrayLen(Ev(y).result) > 0
        /\ Refilled(Ev(z)) /\ ArrayLen(Ev(z).before) > 0 /\ ArrayLen(Ev(z).result) > 0

-----------------------------------------------------------------------------
(* Claims about a run without batches *)

C19_Applies ==
    config.batch_size >= 1 /\ config.n_simulations < config.batch_size

\* C19: with n_simulations < batch_size (batch_size >= 1) run_simulation
\* performs no batch, draws nothing from the generator and returns an empty
\* list; compute_aggregate_metrics of an analyzer holding that empty list
\* raises and returns no metrics record.
C19_EmptyRun ==
    C19_Applies =>
        /\ samples[1] = <<>> /\ built[1] = <<>> /\ results[1] = <<>>
        /\ rng[1] = RngAfterInit(config, default_rng(1))
        /\ distributions[1] = _initialize_distributions(config, default_rng(1))
        /\ Running(1) => n_batches[1] = 0 /\ pc[1] = "loop"
        /\ \A k \in CompletedRuns(1) :
              /\ calls[1][k].ret.status = "returned"
              /\ calls[1][k].ret.value = <<>>
              /\ (an_results = calls[1][k].ret.value /\ metrics # None) =>
                    /\ metrics.status = "raised"
                    /\ metrics.error = "ValueError"

\* 500 / 1000 / 4 has returned its empty list and the analyzer holding an
\* empty list has raised
C19_Witness ==
    /\ config = SimulationConfig(500, 1000, 4)
    /\ returned[1].status = "returned" /\ returned[1].value = <<>>
    /\ an_results = returned[1].value
    /\ metrics # None /\ metrics.status = "raised"
    /\ Len(logger[1]) >= 1

=============================================================================
